---- MODULE Spec2Model ----
(***************************************************************************)
(* Master/slave telemetry relay (igauravkishore/master-slave-control).     *)
(*                                                                         *)
(* The repository holds two master nodes: the class based                  *)
(* MasterNode.prototype.* (src/unnamed/part_002, started by                *)
(* src/master-node/index.js) and the procedural one                        *)
(* (src/master-node/MasterNode.js).  The variable impl says which of the   *)
(* two programs is running; every handler of either program is one action. *)
(*                                                                         *)
(* toHub and toLinks hold what the handler of the LAST event handed to the *)
(* transport: the packets put on the wire toward the webserver and the     *)
(* emits on slave sockets.  last names that event.                         *)
(*                                                                         *)
(* The slave (src/slave/Slave.js with its handlers) and the webserver      *)
(* (src/unnamed/part_003) are modelled as processes of their own: one      *)
(* slave with its identity file, its socket, its handlers and their        *)
(* timers, and the webserver with the sockets of its clients.              *)
(*                                                                         *)
(* sessLink, upWire and downWire join the slave to the class based master: *)
(* the slave's socket as a link of the master, with the messages that are  *)
(* in flight in each direction.                                            *)
(***************************************************************************)
EXTENDS Integers, Sequences, FiniteSets, TLC

\* ---------------------------------------------------------------- bounds
NumLinks == 2       \* slave connections accepted during a run
MaxPkts == 3        \* sensor-data / health-status packets received in a run
MaxNotifs == 2      \* fs.watch notifications raised by one edit of the file
MaxCmds == 4        \* config and control messages the slave receives in a run
NumClients == 3     \* sockets the webserver accepts during a run

Links == 1..NumLinks
NoLink == 0                     \* Map.get(...) === undefined
Ids == {"A1", "A2"}             \* identity.id of the slaves (never empty)
EmptyId == ""                   \* identify {id: ""}
Null == "<null>"                \* let slaveId = null
Undefined == "<undefined>"      \* an event that carries no payload
Absent == "<absent>"            \* a field the packet does not have
Actions == {"start", "stop", "restart"}

\* ------------------------------------------------------- the config file
Entry(id, hs) == [slaveIp |-> id, handlers |-> hs]
NoEntry == Entry(Undefined, <<>>)           \* Array.find(...) === undefined

\* a parsed JSON document: has it a "config" array, and the array
Json(has, cfg) == [hasConfig |-> has, config |-> cfg]
EmptyObject == Json(FALSE, <<>>)            \* {} : no config array

File(st, js) == [status |-> st, json |-> js]
Unreadable == File("unreadable", EmptyObject)   \* readFileSync throws
Unparsable == File("unparsable", EmptyObject)   \* JSON.parse throws
WrongShape == File("ok", EmptyObject)           \* valid JSON, no config array
FileA == File("ok", Json(TRUE, <<Entry("A1", <<"temperature">>),
                                 Entry("A2", <<"humidity">>)>>))
FileB == File("ok", Json(TRUE, <<Entry("A1", <<"humidity">>),
                                 Entry("A2", <<"temperature">>)>>))
FileC == File("ok", Json(TRUE, <<Entry("A1", <<"temperature", "temperature">>),
                                 Entry("A1", <<"humidity">>)>>))
FileContents == {Unreadable, Unparsable, WrongShape, FileA, FileB, FileC}

\* ---------------------------------------------------------------- packets
Payload(id, h, v, st, ts) ==
  [slaveIp |-> id, handler |-> h, value |-> v, status |-> st, timestamp |-> ts]
SensorPacket(id) == Payload(id, "temperature", 42, Absent, "T")
HealthPacket(id) == Payload(id, Absent, 0, "online", "T")
OfflinePacket(id) == Payload(id, Absent, 0, "offline", Absent)
NoPayload == Payload(Undefined, Absent, 0, Absent, Absent)
PktIds == {"A1"}
SensorInputs == {SensorPacket(i) : i \in PktIds} \cup {NoPayload}
HealthInputs == {HealthPacket(i) : i \in PktIds} \cup {NoPayload}

\* a packet emitted on the webserver socket; from and n are bookkeeping: the
\* link the payload arrived on and its position among that link's packets
HubPacket(e, t, p, l, k) == [ev |-> e, type |-> t, payload |-> p, from |-> l, n |-> k]
MasterIdentify == HubPacket("master-identify", Absent, NoPayload, NoLink, 0)

\* an emit on a slave socket
ConfigMsg(l, e) == [to |-> l, ev |-> "config", entry |-> e, action |-> Absent]
ControlMsg(l, a) == [to |-> l, ev |-> "control", entry |-> NoEntry, action |-> a]

Command(id, a) == [slaveId |-> id, action |-> a]
NoCommand == Command(Undefined, Absent)
Commands == {Command(i, a) : i \in Ids, a \in Actions} \cup {NoCommand}

\* an event as the process saw it: its name, the link it arrived on, the id it
\* names, and the socket the Map held under that id when it arrived; arg is
\* the action of a control-slave command
Event(e, l, i, p) == [ev |-> e, link |-> l, id |-> i, prev |-> p, arg |-> Absent]

CommandEvent(c, p) ==
  [ev |-> "control-slave", link |-> NoLink, id |-> c.slaveId, prev |-> p,
   arg |-> c.action]

\* ----------------------------------------------------------- the slave
\* slave_identity.json: can it be read and parsed, and the id it holds
IdentityFile(st, i) == [status |-> st, id |-> i]
IdentityUnreadable == IdentityFile("unreadable", Absent)   \* readFileSync throws
IdentityUnparsable == IdentityFile("unparsable", Absent)   \* JSON.parse throws
IdentityNoId == IdentityFile("ok", Absent)                 \* valid JSON, no id
IdentityFiles ==
  {IdentityUnreadable, IdentityUnparsable, IdentityNoId}
    \cup {IdentityFile("ok", i) : i \in PktIds}

NoExit == -1                    \* the process has not exited

\* the config message as the slave reads it: has it a handlers array, and
\* the array
SlaveConfig(has, hs) == [isNull |-> FALSE, hasHandlers |-> has, handlers |-> hs]
NoSlaveConfig ==                                \* self._config = null
  [isNull |-> TRUE, hasHandlers |-> FALSE, handlers |-> <<>>]
NoHandlers == SlaveConfig(FALSE, <<>>)          \* an object without handlers
HandlerLists ==
  {<<"temperature">>, <<"temperature", "temperature">>, <<"health-check">>}
SlaveConfigs == {SlaveConfig(TRUE, hs) : hs \in HandlerLists} \cup {NoHandlers}

\* a handler object: new SensorHandler(type, ..) or new HealthHandler(..)
SensorHandler(t) == [class |-> "SensorHandler", type |-> t]
HealthHandler == [class |-> "HealthHandler", type |-> "health-check"]
Handlers == {SensorHandler(t) : t \in {"temperature", "health-check"}}
              \cup {HealthHandler}

\* the control message; "pause" stands for any action the switch does not know
ControlCommand(a) == [action |-> a]
ControlCommands ==
  {ControlCommand(a) : a \in Actions \cup {"pause"}} \cup {ControlCommand(Undefined)}

\* an emit on the slave's socket
SlaveEmit(e, p) == [ev |-> e, payload |-> p]
Identify(i) == SlaveEmit("identify", Payload(i, Absent, 0, Absent, Absent))

\* ------------------------------------------------------- the webserver
Clients == 1..NumClients
NoClient == 0                   \* self._masterSocket = null

\* an emit on a client socket of the webserver
ClientMsg(c, e, p, cmd) == [to |-> c, ev |-> e, payload |-> p, command |-> cmd]
MasterStatus(c, st) ==
  ClientMsg(c, "master-status", Payload(Absent, Absent, 0, st, Absent), NoCommand)
DataUi(c, data) == ClientMsg(c, "data-ui", data, NoCommand)
ControlSlave(c, cmd) == ClientMsg(c, "control-slave", NoPayload, cmd)

VARIABLES
  impl,                   \* "cls": MasterNode.prototype.*, "proc": MasterNode.js
  conn,                   \* per link: "none" (not accepted), "open", "closed"
  slaveId,                \* cls: the closure variable of handleSlaveConnection
  connectedSlaves,        \* the Map, as its entries in insertion order
  config,                 \* cls: self._config
  fileContent,            \* master_config.json
  notifs,                 \* fs.watch notifications of the last edit not yet delivered
  configWatcherDebounce,  \* proc: the debounce timer is armed
  cycles,                 \* reload-and-redistribute cycles since the last edit
  webserverConnected,     \* webserverSocket.connected
  sendBuffer,             \* socket.io client: packets emitted while disconnected
  rxCount,                \* per link: packets received so far
  hubSeen,                \* per link: n of the last packet put on the wire
  toHub,                  \* packets put on the wire by the last event
  toLinks,                \* emits on slave sockets by the last event
  last,                   \* the last event handled
  crashed,                \* an exception escaped a handler: the process is gone
  identityFile,           \* slave: slave_identity.json
  exitCode,               \* slave: the status of process.exit, NoExit while it runs
  slaveIdentity,          \* slave: self._identity.id
  instSocketServer,       \* slave: "none", "connecting", "connected", "disconnected"
  agentConfig,            \* slave: self._config
  activeHandlers,         \* slave: the Map of handlers, entries in insertion order
  intervals,              \* slave: per handler object kind, the setInterval timers that run
  restartTimeouts,        \* slave: pending setTimeout(startHandlers, 100)
  cmds,                   \* slave: config and control messages received so far
  stopRequested,          \* slave: the last config or control message was a stop
  toMaster,               \* slave: emits on its socket by the last event
  hubConn,                \* webserver: per client socket "none", "open", "closed"
  masterClient,           \* webserver: the client that is the master node
  masterSocket,           \* webserver: self._masterSocket
  toClients,              \* webserver: emits on client sockets by the last event
  sessLink,               \* the master's link that is the slave's socket, or NoLink
  upWire,                 \* messages the slave emitted that the master has not handled
  downWire                \* messages the master emitted that the slave has not handled

masterVars == <<impl, conn, slaveId, connectedSlaves, config, fileContent,
                notifs, configWatcherDebounce, cycles, webserverConnected,
                sendBuffer, rxCount, hubSeen, toHub, toLinks, crashed>>

slaveVars == <<identityFile, exitCode, slaveIdentity, instSocketServer,
               agentConfig, activeHandlers, intervals, restartTimeouts, cmds,
               stopRequested, toMaster>>

hubVars == <<hubConn, masterClient, masterSocket, toClients>>

netVars == <<sessLink, upWire, downWire>>

vars == <<masterVars, last, slaveVars, hubVars, netVars>>

\* ------------------------------------------------------------- Map (JS)
MapEntry(k, s) == [id |-> k, sock |-> s]

MapHas(m, k) == \E i \in 1..Len(m) : m[i].id = k

MapGet(m, k) ==
  IF MapHas(m, k) THEN m[CHOOSE i \in 1..Len(m) : m[i].id = k].sock ELSE NoLink

\* Map.set that adds an entry even when the key is present
MapSetAppends(m, k, s) == Append(m, MapEntry(k, s))

\* Map.set that keeps the socket already stored under the key
MapSetKeepsOld(m, k, s) ==
  IF MapHas(m, k) THEN m ELSE Append(m, MapEntry(k, s))

\* an existing key keeps its position, a new key goes last
MapSet(m, k, s) ==
  IF MapHas(m, k)
  THEN [i \in 1..Len(m) |-> IF m[i].id = k THEN MapEntry(k, s) ELSE m[i]]
  ELSE Append(m, MapEntry(k, s))

MapDelete(m, k) == SelectSeq(m, LAMBDA e : e.id # k)

MapKeys(m) == [i \in 1..Len(m) |-> m[i].id]

\* a find that returns the last match
FindLast(cfg, id) ==
  IF \E i \in 1..Len(cfg) : cfg[i].slaveIp = id
  THEN cfg[CHOOSE i \in 1..Len(cfg) :
             /\ cfg[i].slaveIp = id
             /\ \A j \in (i + 1)..Len(cfg) : cfg[j].slaveIp # id]
  ELSE NoEntry

\* Array.prototype.find(c => c.slaveIp === id): the first match
Find(cfg, id) ==
  IF \E i \in 1..Len(cfg) : cfg[i].slaveIp = id
  THEN cfg[CHOOSE i \in 1..Len(cfg) :
             /\ cfg[i].slaveIp = id
             /\ \A j \in 1..(i - 1) : cfg[j].slaveIp # id]
  ELSE NoEntry

RECURSIVE Sum(_, _)
Sum(f, n) == IF n = 0 THEN 0 ELSE f[n] + Sum(f, n - 1)

RECURSIVE Flatten(_)
Flatten(ss) == IF ss = <<>> THEN <<>> ELSE Head(ss) \o Flatten(Tail(ss))

Truthy(id) == id # Null /\ id # Undefined /\ id # ""

\* ------------------------------------------------ state after start()
\* loadConfig that reports success without replacing the snapshot
loadConfigKeepsSnapshot(cfg, f) ==
  [loaded |-> f.status = "ok", config |-> cfg]

\* loadConfig that assigns the snapshot before it knows the parse succeeded
loadConfigClobbers(cfg, f) ==
  [loaded |-> f.status = "ok", config |-> f.json]

\* MasterNode.prototype.loadConfig: the snapshot after a load of file f
loadConfig(cfg, f) ==
  IF f.status = "ok" THEN [loaded |-> TRUE, config |-> f.json]
  ELSE [loaded |-> FALSE, config |-> cfg]

Init ==
  /\ impl \in {"cls", "proc"}
  /\ conn = [l \in Links |-> "none"]
  /\ slaveId = [l \in Links |-> Null]
  /\ connectedSlaves = <<>>
  /\ fileContent \in FileContents
  /\ config = IF impl = "cls" THEN loadConfig(EmptyObject, fileContent).config
              ELSE EmptyObject
  /\ notifs = 0
  /\ configWatcherDebounce = FALSE
  /\ cycles = 0
  /\ webserverConnected = FALSE
  /\ sendBuffer = <<>>
  /\ rxCount = [l \in Links |-> 0]
  /\ hubSeen = [l \in Links |-> 0]
  /\ toHub = <<>>
  /\ toLinks = <<>>
  /\ last = Event("start", NoLink, Null, NoLink)
  /\ crashed = FALSE

\* ------------------------------------------------------------ transport
\* socket.io server: 'connection'; both masters only install the handlers.
\* Links are numbered in the order in which they are accepted.
AcceptHandler(l) ==
  /\ ~crashed
  /\ conn[l] = "none"
  /\ \A k \in 1..(l - 1) : conn[k] # "none"
  /\ conn' = [conn EXCEPT ![l] = "open"]
  /\ toHub' = <<>>
  /\ toLinks' = <<>>
  /\ last' = Event("connection", l, Null, NoLink)
  /\ UNCHANGED <<impl, slaveId, connectedSlaves, config, fileContent, notifs,
                 configWatcherDebounce, cycles, webserverConnected, sendBuffer,
                 rxCount, hubSeen, crashed>>

Accept(l) ==
  /\ AcceptHandler(l)
  /\ UNCHANGED <<slaveVars, hubVars, netVars>>

\* n of the last packet of link l in the packets ps, or k if there is none
LastN(ps, l, k) ==
  LET idx == {i \in 1..Len(ps) : ps[i].from = l /\ ps[i].n > 0}
  IN IF idx = {} THEN k
     ELSE ps[CHOOSE i \in idx : \A j \in idx : j <= i].n

\* socket.io client emit(): written to the wire when connected, otherwise
\* pushed on sendBuffer
Emit(pkt) ==
  /\ toHub' = IF webserverConnected THEN <<pkt>> ELSE <<>>
  /\ sendBuffer' = IF webserverConnected THEN sendBuffer
                   ELSE Append(sendBuffer, pkt)
  /\ hubSeen' = [l \in Links |-> LastN(toHub', l, hubSeen[l])]

NoEmit ==
  /\ toHub' = <<>>
  /\ UNCHANGED <<sendBuffer, hubSeen>>

\* the webserver socket goes down (both masters only log)
WebserverDisconnect ==
  /\ ~crashed
  /\ webserverConnected
  /\ webserverConnected' = FALSE
  /\ NoEmit
  /\ toLinks' = <<>>
  /\ last' = Event("hub-disconnect", NoLink, Null, NoLink)
  /\ UNCHANGED <<slaveVars, hubVars, netVars>>
  /\ UNCHANGED <<impl, conn, slaveId, connectedSlaves, config, fileContent,
                 notifs, configWatcherDebounce, cycles, rxCount, crashed>>

\* ------------------------------------------- MasterNode.prototype.* (cls)
\* 'connect': the client flushes sendBuffer, then the handler emits
\* master-identify
ClsWebserverConnect ==
  /\ impl = "cls" /\ ~crashed
  /\ ~webserverConnected
  /\ webserverConnected' = TRUE
  /\ toHub' = sendBuffer \o <<MasterIdentify>>
  /\ sendBuffer' = <<>>
  /\ hubSeen' = [l \in Links |-> LastN(toHub', l, hubSeen[l])]
  /\ toLinks' = <<>>
  /\ last' = Event("hub-connect", NoLink, Null, NoLink)
  /\ UNCHANGED <<slaveVars, hubVars, netVars>>
  /\ UNCHANGED <<impl, conn, slaveId, connectedSlaves, config, fileContent,
                 notifs, configWatcherDebounce, cycles, rxCount, crashed>>

\* forwardDataToWebserver without the emit
forwardDataToWebserverNoEmit(data, l, k) == NoEmit

forwardDataToWebserver(data, l, k) ==
  Emit(HubPacket("forward-data", Absent, data, l, k))

\* sendConfigToSlave whose find callback assigns instead of comparing, so
\* that the first entry of the file matches for every id
ClsSendConfigToSlaveFirstEntry(reg, cfg, sid) ==
  LET slaveSocket == MapGet(reg, sid)
  IN IF ~cfg.hasConfig \/ cfg.config = <<>> \/ slaveSocket = NoLink THEN <<>>
     ELSE <<ConfigMsg(slaveSocket, cfg.config[1])>>

\* sendConfigToSlave that emits on the first socket of the Map instead of
\* the one stored under sid
ClsSendConfigToSlaveAnySocket(reg, cfg, sid) ==
  LET slaveSocket == IF reg = <<>> THEN NoLink ELSE reg[1].sock
      slaveConfig == Find(cfg.config, sid)
  IN IF ~cfg.hasConfig THEN <<>>
     ELSE IF slaveSocket # NoLink /\ slaveConfig # NoEntry
          THEN <<ConfigMsg(slaveSocket, slaveConfig)>>
          ELSE <<>>

\* the emits of sendConfigToSlave(sid); a snapshot without a config array
\* makes find throw, which the method catches
ClsSendConfigToSlave(reg, cfg, sid) ==
  LET slaveSocket == MapGet(reg, sid)
      slaveConfig == Find(cfg.config, sid)
  IN IF ~cfg.hasConfig THEN <<>>
     ELSE IF slaveSocket # NoLink /\ slaveConfig # NoEntry
          THEN <<ConfigMsg(slaveSocket, slaveConfig)>>
          ELSE <<>>

\* sendControlToSlave that falls back to every registered socket when the
\* target is unknown
sendControlToSlaveBroadcast(reg, sid, action) ==
  LET slaveSocket == MapGet(reg, sid)
  IN IF slaveSocket # NoLink THEN <<ControlMsg(slaveSocket, action)>>
     ELSE [i \in 1..Len(reg) |-> ControlMsg(reg[i].sock, action)]

\* sendControlToSlave that tells the target to stop, whatever the command
sendControlToSlaveAlwaysStop(reg, sid, action) ==
  LET slaveSocket == MapGet(reg, sid)
  IN IF slaveSocket # NoLink THEN <<ControlMsg(slaveSocket, "stop")>> ELSE <<>>

sendControlToSlave(reg, sid, action) ==
  LET slaveSocket == MapGet(reg, sid)
  IN IF slaveSocket # NoLink THEN <<ControlMsg(slaveSocket, action)>> ELSE <<>>

\* socket.on("identify"); identity = Undefined: identity.id throws, caught
ClsIdentifyHandler(l, identity) ==
  /\ impl = "cls" /\ ~crashed
  /\ conn[l] = "open"
  /\ IF identity = Undefined
     THEN /\ UNCHANGED <<slaveId, connectedSlaves>>
          /\ toLinks' = <<>>
     ELSE /\ slaveId' = [slaveId EXCEPT ![l] = identity]
          /\ connectedSlaves' = MapSet(connectedSlaves, identity, l)
          /\ toLinks' = ClsSendConfigToSlave(connectedSlaves', config, identity)
  /\ NoEmit
  /\ last' = Event("identify", l, identity, MapGet(connectedSlaves, identity))
  /\ UNCHANGED <<impl, conn, config, fileContent, notifs,
                 configWatcherDebounce, cycles, webserverConnected, rxCount,
                 crashed>>

ClsIdentify(l, identity) ==
  /\ ClsIdentifyHandler(l, identity)
  /\ UNCHANGED <<slaveVars, hubVars, netVars>>

\* the body shared by socket.on("sensor-data") and socket.on("health-status"):
\* log data.slaveIp (throws on a missing payload, caught), then forward
ClsReceive(l, ev, data) ==
  /\ impl = "cls" /\ ~crashed
  /\ conn[l] = "open"
  /\ Sum(rxCount, NumLinks) < MaxPkts
  /\ rxCount' = [rxCount EXCEPT ![l] = @ + 1]
  /\ IF data = NoPayload THEN NoEmit
     ELSE forwardDataToWebserver(data, l, rxCount'[l])
  /\ toLinks' = <<>>
  /\ last' = Event(ev, l, data.slaveIp, NoLink)
  /\ UNCHANGED <<slaveVars, hubVars, netVars>>
  /\ UNCHANGED <<impl, conn, slaveId, connectedSlaves, config, fileContent,
                 notifs, configWatcherDebounce, cycles, webserverConnected,
                 crashed>>

ClsSensorData(l, data) == ClsReceive(l, "sensor-data", data)

ClsHealthStatus(l, data) == ClsReceive(l, "health-status", data)

\* socket.on("disconnect")
ClsDisconnectHandler(l) ==
  /\ impl = "cls" /\ ~crashed
  /\ conn[l] = "open"
  /\ conn' = [conn EXCEPT ![l] = "closed"]
  /\ IF Truthy(slaveId[l])
     THEN /\ connectedSlaves' = MapDelete(connectedSlaves, slaveId[l])
          /\ forwardDataToWebserver(OfflinePacket(slaveId[l]), l, 0)
     ELSE /\ UNCHANGED connectedSlaves
          /\ NoEmit
  /\ toLinks' = <<>>
  /\ last' = Event("disconnect", l, slaveId[l], MapGet(connectedSlaves, slaveId[l]))
  /\ UNCHANGED <<impl, slaveId, config, fileContent, notifs,
                 configWatcherDebounce, cycles, webserverConnected, rxCount,
                 crashed>>

ClsDisconnect(l) ==
  /\ ClsDisconnectHandler(l)
  /\ UNCHANGED <<slaveVars, hubVars, netVars>>

\* _webserverSocket.on("control-slave"): the callback has no try of its own,
\* so command.slaveId on a missing payload escapes
ClsControlSlave(command) ==
  /\ impl = "cls" /\ ~crashed
  /\ webserverConnected
  /\ IF command = NoCommand
     THEN /\ crashed' = TRUE
          /\ toLinks' = <<>>
     ELSE /\ UNCHANGED crashed
          /\ toLinks' = sendControlToSlave(connectedSlaves, command.slaveId,
                                           command.action)
  /\ NoEmit
  /\ last' = CommandEvent(command, MapGet(connectedSlaves, command.slaveId))
  /\ UNCHANGED <<slaveVars, hubVars, netVars>>
  /\ UNCHANGED <<impl, conn, slaveId, connectedSlaves, config, fileContent,
                 notifs, configWatcherDebounce, cycles, webserverConnected,
                 rxCount>>

\* ------------------------------------------------------ the config file
\* an editor saves master_config.json, with new or with the same content;
\* fs.watch raises n notifications for the one edit, all of them within the
\* debounce window
EditFile(c, n) ==
  /\ ~crashed
  /\ notifs = 0
  /\ fileContent' = c
  /\ notifs' = n
  /\ cycles' = 0
  /\ NoEmit
  /\ toLinks' = <<>>
  /\ last' = Event("edit", NoLink, Null, NoLink)
  /\ UNCHANGED <<slaveVars, hubVars, netVars>>
  /\ UNCHANGED <<impl, conn, slaveId, connectedSlaves, config,
                 configWatcherDebounce, webserverConnected, rxCount, crashed>>

\* the emits of "for (const slaveId of keys()) sendConfigToSlave(slaveId)"
ClsRedistribute(reg, cfg) ==
  Flatten([i \in 1..Len(reg) |-> ClsSendConfigToSlave(reg, cfg, MapKeys(reg)[i])])

\* the fs.watch callback of MasterNode.prototype.watchConfigFile
ClsWatchEvent(eventType) ==
  /\ impl = "cls" /\ ~crashed
  /\ notifs > 0
  /\ notifs' = notifs - 1
  /\ LET r == loadConfig(config, fileContent)
     IN IF eventType = "change"
        THEN /\ config' = r.config
             /\ toLinks' = IF r.loaded
                           THEN ClsRedistribute(connectedSlaves, config')
                           ELSE <<>>
             /\ cycles' = IF r.loaded THEN cycles + 1 ELSE cycles
        ELSE /\ UNCHANGED <<config, cycles>>
             /\ toLinks' = <<>>
  /\ NoEmit
  /\ last' = Event("watch", NoLink, eventType, NoLink)
  /\ UNCHANGED <<slaveVars, hubVars, netVars>>
  /\ UNCHANGED <<impl, conn, slaveId, connectedSlaves, fileContent,
                 configWatcherDebounce, webserverConnected, rxCount, crashed>>

\* ---------------------------------------------- MasterNode.js (proc)
\* 'connect': only logs; the handlers never emit while disconnected, so the
\* client has nothing buffered
ProcWebserverConnect ==
  /\ impl = "proc" /\ ~crashed
  /\ ~webserverConnected
  /\ webserverConnected' = TRUE
  /\ toHub' = sendBuffer
  /\ sendBuffer' = <<>>
  /\ hubSeen' = [l \in Links |-> LastN(toHub', l, hubSeen[l])]
  /\ toLinks' = <<>>
  /\ last' = Event("hub-connect", NoLink, Null, NoLink)
  /\ UNCHANGED <<slaveVars, hubVars, netVars>>
  /\ UNCHANGED <<impl, conn, slaveId, connectedSlaves, config, fileContent,
                 notifs, configWatcherDebounce, cycles, rxCount, crashed>>

\* the emits of sendConfigToSlave(sid), which reads the file itself
ProcSendConfigToSlave(reg, f, sid) ==
  LET slaveConfig == Find(f.json.config, sid)
      slaveSocket == MapGet(reg, sid)
  IN IF f.status # "ok" THEN <<>>
     ELSE IF ~f.json.hasConfig THEN <<>>
     ELSE IF slaveConfig # NoEntry /\ slaveSocket # NoLink
          THEN <<ConfigMsg(slaveSocket, slaveConfig)>>
          ELSE <<>>

\* socket.on('identify'); data = Undefined: data.id throws and nothing
\* catches it
ProcIdentify(l, data) ==
  /\ impl = "proc" /\ ~crashed
  /\ conn[l] = "open"
  /\ IF data = Undefined
     THEN /\ crashed' = TRUE
          /\ UNCHANGED connectedSlaves
          /\ toLinks' = <<>>
     ELSE /\ UNCHANGED crashed
          /\ connectedSlaves' = MapSet(connectedSlaves, data, l)
          /\ toLinks' = ProcSendConfigToSlave(connectedSlaves', fileContent, data)
  /\ NoEmit
  /\ last' = Event("identify", l, data, MapGet(connectedSlaves, data))
  /\ UNCHANGED <<slaveVars, hubVars, netVars>>
  /\ UNCHANGED <<impl, conn, slaveId, config, fileContent, notifs,
                 configWatcherDebounce, cycles, webserverConnected, rxCount>>

\* the body shared by socket.on('sensor-data') (type 'data') and
\* socket.on('health-status') (type 'health')
ProcReceive(l, ev, type, data) ==
  /\ impl = "proc" /\ ~crashed
  /\ conn[l] = "open"
  /\ Sum(rxCount, NumLinks) < MaxPkts
  /\ rxCount' = [rxCount EXCEPT ![l] = @ + 1]
  /\ IF webserverConnected
     THEN Emit(HubPacket("forward-data", type, data, l, rxCount'[l]))
     ELSE NoEmit
  /\ toLinks' = <<>>
  /\ last' = Event(ev, l, data.slaveIp, NoLink)
  /\ UNCHANGED <<slaveVars, hubVars, netVars>>
  /\ UNCHANGED <<impl, conn, slaveId, connectedSlaves, config, fileContent,
                 notifs, configWatcherDebounce, cycles, webserverConnected,
                 crashed>>

ProcSensorData(l, data) == ProcReceive(l, "sensor-data", "data", data)

ProcHealthStatus(l, data) == ProcReceive(l, "health-status", "health", data)

\* a scan that stops at the first entry of the Map, whatever socket it holds
FirstIdOfAny(reg, l) == IF Len(reg) > 0 THEN reg[1].id ELSE Null

\* the id of the first entry of the Map that holds socket l, or Null
FirstIdOf(reg, l) ==
  IF \E i \in 1..Len(reg) : reg[i].sock = l
  THEN reg[CHOOSE i \in 1..Len(reg) :
             /\ reg[i].sock = l
             /\ \A j \in 1..(i - 1) : reg[j].sock # l].id
  ELSE Null

\* socket.on('disconnect')
ProcDisconnect(l) ==
  LET disconnectedId == FirstIdOf(connectedSlaves, l)
  IN /\ impl = "proc" /\ ~crashed
     /\ conn[l] = "open"
     /\ conn' = [conn EXCEPT ![l] = "closed"]
     /\ IF Truthy(disconnectedId)
        THEN /\ connectedSlaves' = MapDelete(connectedSlaves, disconnectedId)
             /\ IF webserverConnected
                THEN Emit(HubPacket("forward-data", "health",
                                    OfflinePacket(disconnectedId), l, 0))
                ELSE NoEmit
        ELSE /\ UNCHANGED connectedSlaves
             /\ NoEmit
     /\ toLinks' = <<>>
     /\ last' = Event("disconnect", l, disconnectedId,
                     MapGet(connectedSlaves, disconnectedId))
     /\ UNCHANGED <<slaveVars, hubVars, netVars>>
     /\ UNCHANGED <<impl, slaveId, config, fileContent, notifs,
                    configWatcherDebounce, cycles, webserverConnected, rxCount,
                    crashed>>

\* the fs.watch callback of watchConfigFile: clearTimeout, setTimeout(.., 200)
ProcWatchEvent(hasFilename) ==
  /\ impl = "proc" /\ ~crashed
  /\ notifs > 0
  /\ notifs' = notifs - 1
  /\ configWatcherDebounce' = (hasFilename \/ configWatcherDebounce)
  /\ NoEmit
  /\ toLinks' = <<>>
  /\ last' = Event("watch", NoLink, IF hasFilename THEN "file" ELSE Null, NoLink)
  /\ UNCHANGED <<slaveVars, hubVars, netVars>>
  /\ UNCHANGED <<impl, conn, slaveId, connectedSlaves, config, fileContent,
                 cycles, webserverConnected, rxCount, crashed>>

\* the emits of loadAndDistributeConfigToAll()
loadAndDistributeConfigToAll(reg, f) ==
  Flatten([i \in 1..Len(reg) |-> ProcSendConfigToSlave(reg, f, MapKeys(reg)[i])])

\* the debounce timer expires, 200 ms after the last notification: every
\* notification of the edit has been delivered by then
ProcDebounceFire ==
  /\ impl = "proc" /\ ~crashed
  /\ configWatcherDebounce
  /\ notifs = 0
  /\ configWatcherDebounce' = FALSE
  /\ toLinks' = loadAndDistributeConfigToAll(connectedSlaves, fileContent)
  /\ cycles' = cycles + 1
  /\ NoEmit
  /\ last' = Event("debounce", NoLink, Null, NoLink)
  /\ UNCHANGED <<slaveVars, hubVars, netVars>>
  /\ UNCHANGED <<impl, conn, slaveId, connectedSlaves, config, fileContent,
                 notifs, webserverConnected, rxCount, crashed>>

\* ------------------------------------------------- SlaveNode (Slave.js)
\* the state the SlaveNode constructor leaves, before start()
SlaveNodeInit ==
  /\ identityFile \in IdentityFiles
  /\ exitCode = NoExit
  /\ slaveIdentity = Null
  /\ instSocketServer = "none"
  /\ agentConfig = NoSlaveConfig
  /\ activeHandlers = <<>>
  /\ intervals = [h \in Handlers |-> 0]
  /\ restartTimeouts = 0
  /\ cmds = 0
  /\ stopRequested = FALSE
  /\ toMaster = <<>>

\* readIdentity that accepts an identity file without id
readIdentityAcceptsMissingId(f) ==
  IF f.status = "ok"
  THEN [ok |-> TRUE, exitCode |-> NoExit, identity |-> f.id]
  ELSE [ok |-> FALSE, exitCode |-> 1, identity |-> Null]

\* SlaveNode.prototype.readIdentity: true, or process.exit(1) from the catch
readIdentity(f) ==
  IF f.status = "ok" /\ Truthy(f.id) /\ f.id # Absent
  THEN [ok |-> TRUE, exitCode |-> NoExit, identity |-> f.id]
  ELSE [ok |-> FALSE, exitCode |-> 1, identity |-> Null]

\* SlaveNode.prototype.start: readIdentity, then connectToMaster, which
\* creates the socket and installs the listeners
SlaveStart ==
  /\ exitCode = NoExit
  /\ instSocketServer = "none"
  /\ LET r == readIdentity(identityFile)
     IN /\ exitCode' = r.exitCode
        /\ slaveIdentity' = r.identity
        /\ instSocketServer' = IF r.ok THEN "connecting" ELSE "none"
  /\ toMaster' = <<>>
  /\ last' = Event("slave-start", NoLink, Null, NoLink)
  /\ UNCHANGED <<identityFile, agentConfig, activeHandlers, intervals,
                 restartTimeouts, cmds, stopRequested>>
  /\ UNCHANGED <<masterVars, hubVars, netVars>>

\* the "connect" listener: the socket is up (again), emit identify
\* a connect listener that emits nothing
SlaveConnectHandlerSilent ==
  /\ exitCode = NoExit
  /\ instSocketServer \in {"connecting", "disconnected"}
  /\ instSocketServer' = "connected"
  /\ toMaster' = <<>>
  /\ last' = Event("slave-connect", NoLink, Null, NoLink)
  /\ UNCHANGED <<identityFile, exitCode, slaveIdentity, agentConfig,
                 activeHandlers, intervals, restartTimeouts, cmds,
                 stopRequested>>

SlaveConnectHandler ==
  /\ exitCode = NoExit
  /\ instSocketServer \in {"connecting", "disconnected"}
  /\ instSocketServer' = "connected"
  /\ toMaster' = <<Identify(slaveIdentity)>>
  /\ last' = Event("slave-connect", NoLink, Null, NoLink)
  /\ UNCHANGED <<identityFile, exitCode, slaveIdentity, agentConfig,
                 activeHandlers, intervals, restartTimeouts, cmds,
                 stopRequested>>

SlaveConnect ==
  /\ SlaveConnectHandler
  /\ UNCHANGED <<masterVars, hubVars, netVars>>

RECURSIVE SetAll(_, _)
\* Map.set for each of the entries es, in order
SetAll(m, es) ==
  IF es = <<>> THEN m
  ELSE SetAll(MapSet(m, Head(es).id, Head(es).sock), Tail(es))

\* the handlers startHandlers creates for the handlers list hs, each under
\* the key it is stored at: one SensorHandler per element, then the
\* HealthHandler under "health-check"
Spawned(hs) ==
  [i \in 1..Len(hs) |-> MapEntry(hs[i], SensorHandler(hs[i]))]
    \o <<MapEntry("health-check", HealthHandler)>>

\* SlaveNode.prototype.startHandlers: the Map and the running timers after
\* the call; every handler created is started, Map.set keeps the last one
\* stored under a key
startHandlers(ah, iv, cfg) ==
  IF Len(ah) > 0 \/ cfg.isNull \/ ~cfg.hasHandlers
  THEN [activeHandlers |-> ah, intervals |-> iv]
  ELSE [activeHandlers |-> SetAll(<<>>, Spawned(cfg.handlers)),
        intervals |-> [h \in Handlers |->
           iv[h] + Cardinality({i \in 1..Len(Spawned(cfg.handlers)) :
                                  Spawned(cfg.handlers)[i].sock = h})]]

\* SlaveNode.prototype.stopAllHandlers: stop() clears the timer of every
\* handler the Map holds, then the Map is cleared
stopAllHandlers(ah, iv) ==
  [activeHandlers |-> <<>>,
   intervals |-> [h \in Handlers |->
      IF \E i \in 1..Len(ah) : ah[i].sock = h THEN iv[h] - 1 ELSE iv[h]]]

\* the "config" listener: keep the config, save it (the file is never read
\* back), stopAllHandlers, startHandlers
SlaveOnConfigHandler(cfg) ==
  /\ exitCode = NoExit
  /\ instSocketServer = "connected"
  /\ cmds < MaxCmds
  /\ cmds' = cmds + 1
  /\ agentConfig' = cfg
  /\ LET stopped == stopAllHandlers(activeHandlers, intervals)
         started == startHandlers(stopped.activeHandlers, stopped.intervals, cfg)
     IN /\ activeHandlers' = started.activeHandlers
        /\ intervals' = started.intervals
  /\ stopRequested' = FALSE
  /\ toMaster' = <<>>
  /\ last' = Event("slave-config", NoLink, Null, NoLink)
  /\ UNCHANGED <<identityFile, exitCode, slaveIdentity, instSocketServer,
                 restartTimeouts>>

SlaveOnConfig(cfg) ==
  /\ SlaveOnConfigHandler(cfg)
  /\ UNCHANGED <<masterVars, hubVars, netVars>>

\* the "control" listener; a message without payload makes command.action
\* throw, which the listener catches
SlaveOnControl(command) ==
  /\ exitCode = NoExit
  /\ instSocketServer = "connected"
  /\ cmds < MaxCmds
  /\ cmds' = cmds + 1
  /\ LET stopped == stopAllHandlers(activeHandlers, intervals)
         started == startHandlers(activeHandlers, intervals, agentConfig)
     IN CASE command.action = "stop" ->
               /\ activeHandlers' = stopped.activeHandlers
               /\ intervals' = stopped.intervals
               /\ UNCHANGED restartTimeouts
          [] command.action = "start" ->
               /\ activeHandlers' = started.activeHandlers
               /\ intervals' = started.intervals
               /\ UNCHANGED restartTimeouts
          [] command.action = "restart" ->
               /\ activeHandlers' = stopped.activeHandlers
               /\ intervals' = stopped.intervals
               /\ restartTimeouts' = restartTimeouts + 1
          [] OTHER ->
               UNCHANGED <<activeHandlers, intervals, restartTimeouts>>
  /\ stopRequested' = CASE command.action = "stop" -> TRUE
                        [] command.action \in {"start", "restart"} -> FALSE
                        [] OTHER -> stopRequested
  /\ toMaster' = <<>>
  /\ last' = Event("slave-control", NoLink, command.action, NoLink)
  /\ UNCHANGED <<identityFile, exitCode, slaveIdentity, instSocketServer,
                 agentConfig>>
  /\ UNCHANGED <<masterVars, hubVars, netVars>>

\* the timer of a restart expires: startHandlers
SlaveRestartTimeout ==
  /\ exitCode = NoExit
  /\ restartTimeouts > 0
  /\ restartTimeouts' = restartTimeouts - 1
  /\ LET started == startHandlers(activeHandlers, intervals, agentConfig)
     IN /\ activeHandlers' = started.activeHandlers
        /\ intervals' = started.intervals
  /\ toMaster' = <<>>
  /\ last' = Event("slave-timeout", NoLink, Null, NoLink)
  /\ UNCHANGED <<identityFile, exitCode, slaveIdentity, instSocketServer,
                 agentConfig, cmds, stopRequested>>
  /\ UNCHANGED <<masterVars, hubVars, netVars>>

\* the "disconnect" listener: stopAllHandlers
SlaveOnDisconnectHandler ==
  /\ exitCode = NoExit
  /\ instSocketServer = "connected"
  /\ instSocketServer' = "disconnected"
  /\ LET stopped == stopAllHandlers(activeHandlers, intervals)
     IN /\ activeHandlers' = stopped.activeHandlers
        /\ intervals' = stopped.intervals
  /\ toMaster' = <<>>
  /\ last' = Event("slave-disconnect", NoLink, Null, NoLink)
  /\ UNCHANGED <<identityFile, exitCode, slaveIdentity, agentConfig,
                 restartTimeouts, cmds, stopRequested>>

SlaveOnDisconnect ==
  /\ SlaveOnDisconnectHandler
  /\ UNCHANGED <<masterVars, hubVars, netVars>>

\* the packet a handler hands to sendSensorData / sendHealthStatus
PacketOf(h, i) ==
  IF h.class = "SensorHandler"
  THEN SlaveEmit("sensor-data", Payload(i, h.type, 42, Absent, "T"))
  ELSE SlaveEmit("health-status", HealthPacket(i))

\* a setInterval timer of a handler of kind h fires: the callback emits
SlaveTick(h) ==
  /\ exitCode = NoExit
  /\ intervals[h] > 0
  /\ toMaster' = <<PacketOf(h, slaveIdentity)>>
  /\ last' = Event("slave-tick", NoLink, h.type, NoLink)
  /\ UNCHANGED <<identityFile, exitCode, slaveIdentity, instSocketServer,
                 agentConfig, activeHandlers, intervals, restartTimeouts,
                 cmds, stopRequested>>
  /\ UNCHANGED <<masterVars, hubVars, netVars>>

\* ------------------------------------------- WebServer (part_003)
\* the state the WebServer constructor leaves; one of the clients that will
\* connect is the master node, the others are dashboards
WebServerInit ==
  /\ hubConn = [c \in Clients |-> "none"]
  /\ masterClient \in Clients
  /\ masterSocket = NoClient
  /\ toClients = <<>>

\* _io.emit: one emit on every socket that is connected
Broadcast(open, e) ==
  LET RECURSIVE Upto(_)
      Upto(c) == IF c = 0 THEN <<>>
                 ELSE IF open[c] = "open" THEN Append(Upto(c - 1), MasterStatus(c, e))
                 ELSE Upto(c - 1)
  IN Upto(NumClients)

\* _io.on("connection"): clientType = socket.id is never empty, so every
\* client is taken for the master node
HubConnection(c) ==
  /\ hubConn[c] = "none"
  /\ hubConn' = [hubConn EXCEPT ![c] = "open"]
  /\ masterSocket' = c
  /\ toClients' = <<MasterStatus(c, "online")>>
  /\ last' = Event("hub-connection", c, Null, masterSocket)
  /\ UNCHANGED masterClient
  /\ UNCHANGED <<masterVars, slaveVars, netVars>>

\* the emits of the "forward-data" listener of socket c: _masterSocket.emit,
\* which throws on null and is caught
ForwardData(open, ms, c, data) ==
  IF ms = NoClient THEN <<>> ELSE <<DataUi(ms, data)>>

\* socket.on("forward-data") of the master's socket
HubForwardData(c, data) ==
  /\ hubConn[c] = "open"
  /\ c = masterClient
  /\ toClients' = ForwardData(hubConn, masterSocket, c, data)
  /\ last' = Event("hub-forward-data", c, data.slaveIp, masterSocket)
  /\ UNCHANGED <<hubConn, masterClient, masterSocket>>
  /\ UNCHANGED <<masterVars, slaveVars, netVars>>

\* socket.on("control-slave") of a dashboard's socket
HubControlSlave(c, command) ==
  /\ hubConn[c] = "open"
  /\ c # masterClient
  /\ toClients' = IF masterSocket # NoClient
                  THEN <<ControlSlave(masterSocket, command)>>
                  ELSE <<>>
  /\ last' = [Event("hub-control-slave", c, command.slaveId, masterSocket)
                EXCEPT !.arg = command.action]
  /\ UNCHANGED <<hubConn, masterClient, masterSocket>>
  /\ UNCHANGED <<masterVars, slaveVars, netVars>>

\* socket.on("disconnect") of any client
HubDisconnect(c) ==
  /\ hubConn[c] = "open"
  /\ hubConn' = [hubConn EXCEPT ![c] = "closed"]
  /\ masterSocket' = NoClient
  /\ toClients' = Broadcast(hubConn', "offline")
  /\ last' = Event("hub-disconnect-client", c, Null, masterSocket)
  /\ UNCHANGED masterClient
  /\ UNCHANGED <<masterVars, slaveVars, netVars>>

\* the slave and the webserver as the master's slices leave them: not
\* started
SlaveIdle == SlaveNodeInit /\ identityFile = IdentityFile("ok", "A1")

WebServerIdle == WebServerInit /\ masterClient = 1

\* no transport between the slave and the master, nothing in flight
NetIdle == sessLink = NoLink /\ upWire = <<>> /\ downWire = <<>>

\* ------------------------------- the slave's socket to the master
\* The slave process and the class-based master, joined by the slave's
\* socket: what one side emits is in flight until the other side's listener
\* handles it, in order; a transport that breaks loses what is in flight,
\* and each side learns of the break by its own disconnect event.

\* the messages of ms that are emitted on the socket of link l
To(ms, l) == SelectSeq(ms, LAMBDA m : m.to = l)

\* the transport is up on both sides
Linked == sessLink # NoLink /\ conn[sessLink] = "open"

\* the config message as the slave's listener receives it
Received_config(m) == SlaveConfig(TRUE, m.entry.handlers)

\* io(MASTER_URL) reaches the server, whose connection event fires
SessAccept(l) ==
  /\ exitCode = NoExit
  /\ instSocketServer \in {"connecting", "disconnected"}
  /\ ~Linked
  /\ AcceptHandler(l)
  /\ sessLink' = l
  /\ upWire' = <<>>
  /\ downWire' = <<>>
  /\ UNCHANGED <<slaveVars, hubVars>>

\* the slave's connect event: identify goes on the wire
SessConnect ==
  /\ Linked
  /\ SlaveConnectHandler
  /\ upWire' = upWire \o toMaster'
  /\ UNCHANGED <<masterVars, hubVars, sessLink, downWire>>

\* the master handles the identify that is first on the wire; the config it
\* emits on that socket goes on the wire to the slave
SessIdentify ==
  /\ Linked
  /\ upWire # <<>>
  /\ Head(upWire).ev = "identify"
  /\ ClsIdentifyHandler(sessLink, Head(upWire).payload.slaveIp)
  /\ upWire' = Tail(upWire)
  /\ downWire' = downWire \o To(toLinks', sessLink)
  /\ UNCHANGED <<slaveVars, hubVars, sessLink>>

\* the slave handles the config that is first on the wire
SessConfig ==
  /\ Linked
  /\ downWire # <<>>
  /\ Head(downWire).ev = "config"
  /\ SlaveOnConfigHandler(Received_config(Head(downWire)))
  /\ downWire' = Tail(downWire)
  /\ UNCHANGED <<masterVars, hubVars, sessLink, upWire>>

\* the slave's disconnect event: the transport is gone for the slave, which
\* will reconnect; the master's side of it stays open until its own event
SessSlaveDisconnect ==
  /\ sessLink # NoLink
  /\ SlaveOnDisconnectHandler
  /\ sessLink' = NoLink
  /\ upWire' = <<>>
  /\ downWire' = <<>>
  /\ UNCHANGED <<masterVars, hubVars>>

\* the master's disconnect event of a link, the current one or an older one
SessMasterDisconnect(l) ==
  /\ ClsDisconnectHandler(l)
  /\ UNCHANGED <<slaveVars, hubVars, netVars>>

\* ------------------------------------------------------ specifications
\* The registry: connections, identification, commands, disconnects and the
\* webserver link.  No telemetry arrives and the config file is not edited:
\* it holds an entry for the id that identifies (FileA), none (FileC for
\* "A2"), or was never loaded (Unparsable).
NextRegistry ==
  \/ \E l \in Links : Accept(l)
  \/ WebserverDisconnect
  \/ ClsWebserverConnect
  \/ \E l \in Links, i \in Ids \cup {Undefined} : ClsIdentify(l, i)
  \/ \E l \in Links : ClsDisconnect(l)
  \/ \E c \in Commands : ClsControlSlave(c)
  \/ ProcWebserverConnect
  \/ \E l \in Links, i \in Ids \cup {Undefined} : ProcIdentify(l, i)
  \/ \E l \in Links : ProcDisconnect(l)

InitRegistry ==
  /\ Init /\ fileContent \in {FileA, FileC, Unparsable}
  /\ SlaveIdle /\ WebServerIdle /\ NetIdle

SpecRegistry == InitRegistry /\ [][NextRegistry]_vars

\* Forwarding: telemetry of the links and the webserver link going up and
\* down.  The forwarding handlers read neither the Map, nor slaveId, nor the
\* config: identification is left to SpecRegistry and the file is not edited.
NextForward ==
  \/ \E l \in Links : Accept(l)
  \/ WebserverDisconnect
  \/ ClsWebserverConnect
  \/ \E l \in Links, d \in SensorInputs : ClsSensorData(l, d)
  \/ \E l \in Links, d \in HealthInputs : ClsHealthStatus(l, d)
  \/ \E l \in Links : ClsDisconnect(l)
  \/ ProcWebserverConnect
  \/ \E l \in Links, d \in SensorInputs : ProcSensorData(l, d)
  \/ \E l \in Links, d \in HealthInputs : ProcHealthStatus(l, d)
  \/ \E l \in Links : ProcDisconnect(l)

InitForward ==
  Init /\ fileContent = FileA /\ SlaveIdle /\ WebServerIdle /\ NetIdle

SpecForward == InitForward /\ [][NextForward]_vars

\* The config plane: connections, identification and the config file with
\* its watcher.  No telemetry arrives and the webserver link stays down.
NextConfig ==
  \/ \E l \in Links : Accept(l)
  \/ \E l \in Links, i \in Ids : ClsIdentify(l, i)
  \/ \E l \in Links : ClsDisconnect(l)
  \/ \E c \in FileContents, n \in 1..MaxNotifs : EditFile(c, n)
  \/ \E t \in {"change", "rename"} : ClsWatchEvent(t)
  \/ \E l \in Links, i \in Ids : ProcIdentify(l, i)
  \/ \E l \in Links : ProcDisconnect(l)
  \/ \E b \in BOOLEAN : ProcWatchEvent(b)
  \/ ProcDebounceFire

InitConfig == Init /\ SlaveIdle /\ WebServerIdle /\ NetIdle

SpecConfig == InitConfig /\ [][NextConfig]_vars

\* The slave: its start, its socket, the config and control messages it is
\* sent, and its timers.  The master and the webserver stand still.
NextSlave ==
  \/ SlaveStart
  \/ SlaveConnect
  \/ \E cfg \in SlaveConfigs : SlaveOnConfig(cfg)
  \/ \E command \in ControlCommands : SlaveOnControl(command)
  \/ SlaveRestartTimeout
  \/ SlaveOnDisconnect
  \/ \E h \in Handlers : SlaveTick(h)

InitSlave ==
  /\ Init /\ impl = "cls" /\ fileContent = FileA
  /\ SlaveNodeInit /\ WebServerIdle /\ NetIdle

SpecSlave == InitSlave /\ [][NextSlave]_vars

\* The webserver: its clients connect, send and disconnect in any order.
\* The master's and the slave's own state stand still.
NextHub ==
  \/ \E c \in Clients : HubConnection(c)
  \/ \E c \in Clients, d \in {SensorPacket("A1"), OfflinePacket("A1")} :
       HubForwardData(c, d)
  \/ \E c \in Clients, command \in Commands : HubControlSlave(c, command)
  \/ \E c \in Clients : HubDisconnect(c)

InitHub ==
  /\ Init /\ impl = "cls" /\ fileContent = FileA
  /\ SlaveIdle /\ WebServerInit /\ NetIdle

SpecHub == InitHub /\ [][NextHub]_vars

\* The session of one slave with the class-based master: the slave starts,
\* connects, identifies, is configured, loses its link and reconnects, while
\* the master learns of each lost link at its own time.  The config file is
\* not edited and no command is sent.
NextSession ==
  \/ SlaveStart
  \/ \E l \in Links : SessAccept(l)
  \/ SessConnect
  \/ SessIdentify
  \/ SessConfig
  \/ SessSlaveDisconnect
  \/ \E l \in Links : SessMasterDisconnect(l)

InitSession ==
  /\ Init /\ impl = "cls" /\ fileContent \in {FileA, FileC, Unparsable}
  /\ SlaveNodeInit /\ WebServerIdle /\ NetIdle

\* each process runs an event loop: a message that has arrived on a socket
\* is handed to the listener of its event
SpecSessionFair ==
  /\ InitSession /\ [][NextSession]_vars
  /\ WF_vars(SessIdentify)
  /\ WF_vars(SessConfig)

\* Identification: links are accepted, identify and close; a link may name
\* any id, the empty string included, and name another one later.  The
\* webserver link stays down, no command arrives and the file is not edited.
NextIdentity ==
  \/ \E l \in Links : Accept(l)
  \/ \E l \in Links, i \in Ids \cup {EmptyId} : ClsIdentify(l, i)
  \/ \E l \in Links : ClsDisconnect(l)
  \/ \E l \in Links, i \in Ids \cup {EmptyId} : ProcIdentify(l, i)
  \/ \E l \in Links : ProcDisconnect(l)

InitIdentity ==
  Init /\ fileContent = FileA /\ SlaveIdle /\ WebServerIdle /\ NetIdle

SpecIdentity == InitIdentity /\ [][NextIdentity]_vars

\* ============================================================== claims
\* what the store holds for the master that runs: self._config (cls), the
\* file as sendConfigToSlave reads it (proc)
Snapshot ==
  IF impl = "cls" THEN config
  ELSE IF fileContent.status = "ok" THEN fileContent.json ELSE EmptyObject

EntryFor(x) == IF Snapshot.hasConfig THEN Find(Snapshot.config, x) ELSE NoEntry

Count(ps, Test(_)) == Len(SelectSeq(ps, Test))

IsOffline(p, x) == p.ev = "forward-data" /\ p.payload = OfflinePacket(x)

IsTelemetry(p) == p.ev = "forward-data" /\ p.n > 0

\* C1: when a link that is registered under X closes while the webserver
\* socket is connected, exactly one {slaveIp: X, status: "offline"} packet is
\* forwarded and X is no longer in the registry.
C1_DisconnectForwardsOffline ==
  [][\A l \in Links, x \in Ids :
       (/\ conn[l] = "open" /\ conn'[l] = "closed"
        /\ MapGet(connectedSlaves, x) = l
        /\ webserverConnected)
       => /\ Count(toHub', LAMBDA p : IsOffline(p, x)) = 1
          /\ MapGet(connectedSlaves', x) = NoLink]_vars

\* C2: when link l handles identify(x) while another link is registered under
\* x, the registry afterwards holds exactly one entry for x, and it is l.
C2_LastIdentifyWins ==
  (last.ev = "identify" /\ last.id \in Ids /\ last.prev \notin {NoLink, last.link})
  => /\ MapGet(connectedSlaves, last.id) = last.link
     /\ Cardinality({i \in 1..Len(connectedSlaves) :
                       connectedSlaves[i].id = last.id}) = 1

C2_Witness ==
  /\ last.ev = "identify" /\ last.id = "A1" /\ last.link = 2 /\ last.prev = 1
  /\ conn[1] = "open"
  /\ MapGet(connectedSlaves, "A1") = 2

\* C3: no telemetry packet is queued while the webserver socket is down, and
\* none is put on the wire when the socket connects again.
C3_HubDownDropsTelemetry ==
  /\ \A i \in 1..Len(sendBuffer) : ~IsTelemetry(sendBuffer[i])
  /\ last.ev = "hub-connect" => \A i \in 1..Len(toHub) : ~IsTelemetry(toHub[i])

ExpectedPush(l, x) ==
  IF EntryFor(x) # NoEntry THEN <<ConfigMsg(l, EntryFor(x))>> ELSE <<>>

EntriesFor(m, x) == {i \in 1..Len(m) : m[i].id = x}

\* C4: identify(x) on the link already registered under x leaves the registry
\* as it is, with one entry for x that points at the link, and pushes the
\* config again exactly as a first identify does.
C4_IdentifyTwiceSameLink ==
  [][\A l \in Links, x \in Ids :
       (last' = Event("identify", l, x, l) /\ MapGet(connectedSlaves, x) = l)
       => /\ connectedSlaves' = connectedSlaves
          /\ Cardinality(EntriesFor(connectedSlaves', x)) = 1
          /\ MapGet(connectedSlaves', x) = l
          /\ toLinks' = ExpectedPush(l, x)]_vars

C4_Witness ==
  /\ last.ev = "identify" /\ last.id \in Ids /\ last.prev = last.link
  /\ MapGet(connectedSlaves, last.id) = last.link
  /\ toLinks = <<ConfigMsg(last.link, EntryFor(last.id))>>
  /\ EntryFor(last.id) # NoEntry

\* C5: a control-slave command that names an id without registry entry emits
\* nothing on any socket, leaves the registry alone and raises nothing; a
\* control message is only ever emitted by the control-slave event itself, to
\* the socket registered under the target when the command arrived.
C5_UnknownTargetDropped ==
  [][/\ \A c \in Commands \ {NoCommand} :
          (/\ last' = CommandEvent(c, NoLink)
           /\ MapGet(connectedSlaves, c.slaveId) = NoLink)
          => /\ toLinks' = <<>>
             /\ toHub' = <<>>
             /\ sendBuffer' = sendBuffer
             /\ connectedSlaves' = connectedSlaves
             /\ crashed' = crashed
     /\ \A i \in 1..Len(toLinks') :
          toLinks'[i].ev = "control"
          => /\ last'.ev = "control-slave"
             /\ toLinks'[i].to = MapGet(connectedSlaves, last'.id)]_vars

C5_Witness ==
  /\ last.ev = "control-slave" /\ last.id = "A2" /\ last.prev = NoLink
  /\ MapGet(connectedSlaves, "A1") # NoLink
  /\ toLinks = <<>>
  /\ ~crashed

TelemetryFrom(ps, l) == SelectSeq(ps, LAMBDA p : IsTelemetry(p) /\ p.from = l)

\* C6: the telemetry packets of one link reach the wire in the order in which
\* the link delivered them (n increases, also past what the hub has seen of
\* that link), and while the webserver socket is connected a packet is put on
\* the wire by the very event that received it.
C6_PerLinkOrder ==
  [][\A l \in Links :
       LET ps == TelemetryFrom(toHub', l)
       IN /\ \A i \in 1..Len(ps) :
               ps[i].n > (IF i = 1 THEN hubSeen[l] ELSE ps[i - 1].n)
          /\ (/\ rxCount'[l] = rxCount[l] + 1
              /\ webserverConnected
              /\ last'.id # Undefined)
             => /\ Len(toHub') = 1
                /\ toHub'[1].from = l
                /\ toHub'[1].n = rxCount'[l]
                /\ toHub'[1].payload.slaveIp = last'.id]_vars

C6_Witness ==
  \E l \in Links, k \in Links :
    /\ l # k
    /\ last.ev \in {"sensor-data", "health-status"} /\ last.link = l
    /\ webserverConnected
    /\ Len(toHub) = 1 /\ toHub[1].from = l /\ toHub[1].n = 2
    /\ hubSeen[l] = 2 /\ hubSeen[k] = 1

\* the last event reloaded the file and redistributed: a "change"
\* notification (cls), the expiry of the debounce timer (proc)
Reloaded ==
  \/ impl = "cls" /\ last.ev = "watch" /\ last.id = "change"
  \/ impl = "proc" /\ last.ev = "debounce"

NewEntry(x) ==
  IF fileContent.json.hasConfig THEN Find(fileContent.json.config, x) ELSE NoEntry

\* C7: after a reload of a file that loads, every id of the registry that has
\* an entry in the file as it is now is sent exactly one config message, on
\* the socket registered under the id, carrying that entry.
C7_Redistribution ==
  (Reloaded /\ fileContent.status = "ok")
  => \A i \in 1..Len(connectedSlaves) :
       LET x == connectedSlaves[i].id
       IN NewEntry(x) # NoEntry
          => /\ Count(toLinks, LAMBDA m : m.ev = "config" /\ m.entry.slaveIp = x) = 1
             /\ \E k \in 1..Len(toLinks) :
                  toLinks[k] = ConfigMsg(connectedSlaves[i].sock, NewEntry(x))

C7_Witness ==
  /\ Reloaded
  /\ fileContent = FileB
  /\ MapGet(connectedSlaves, "A1") = 1
  /\ MapGet(connectedSlaves, "A2") = 2
  /\ Len(toLinks) = 2
  /\ \E k \in 1..2 : toLinks[k] = ConfigMsg(1, Entry("A1", <<"humidity">>))
  /\ \E k \in 1..2 : toLinks[k] = ConfigMsg(2, Entry("A2", <<"temperature">>))

\* C8: the notifications of one edit lead to at most one
\* reload-and-redistribute cycle.
C8_OneCyclePerEdit == cycles <= 1

\* C9: a "change" notification (cls) for a file that cannot be read or parsed
\* leaves the snapshot as it was, load reports failure, nothing is pushed and
\* the process keeps running; the procedural master pushes nothing either when
\* its timer expires on such a file.
C9_FailedReload ==
  [][/\ (/\ impl = "cls"
         /\ last' = Event("watch", NoLink, "change", NoLink)
         /\ notifs' = notifs - 1
         /\ fileContent.status # "ok")
        => /\ config' = config
           /\ ~loadConfig(config, fileContent).loaded
           /\ toLinks' = <<>>
           /\ cycles' = cycles
           /\ ~crashed'
     /\ (/\ impl = "proc"
         /\ last'.ev = "debounce"
         /\ configWatcherDebounce /\ ~configWatcherDebounce'
         /\ fileContent.status # "ok")
        => /\ toLinks' = <<>>
           /\ ~crashed']_vars

C9_Witness ==
  /\ impl = "cls"
  /\ last = Event("watch", NoLink, "change", NoLink)
  /\ fileContent = Unparsable
  /\ config = FileA.json
  /\ MapGet(connectedSlaves, "A1") # NoLink
  /\ toLinks = <<>>
  /\ ~crashed

\* C10: after identify(x) on link l the registry maps x to l, and the event
\* emitted exactly one message, config with the snapshot's entry for x, on l if
\* the snapshot has an entry for x, and nothing otherwise.
C10_IdentifyTransition ==
  (last.ev = "identify" /\ last.id \in Ids)
  => /\ MapGet(connectedSlaves, last.id) = last.link
     /\ toLinks = ExpectedPush(last.link, last.id)
     /\ toHub = <<>>

C10_Witness ==
  /\ last.ev = "identify" /\ last.id = "A2" /\ last.prev = NoLink
  /\ Snapshot = FileC.json
  /\ EntryFor("A2") = NoEntry
  /\ toLinks = <<>>
  /\ MapGet(connectedSlaves, "A2") = last.link

LinkId(l) ==
  IF impl = "cls" THEN slaveId[l] ELSE FirstIdOf(connectedSlaves, l)

\* C12: once a link has its identifier, an identify on that link leaves the
\* identifier as it is, and the link is never registered under two ids.
C12_IdentifierImmutable ==
  [][\A l \in Links :
       (last'.ev = "identify" /\ last'.link = l /\ Truthy(LinkId(l)))
       => /\ LinkId(l)' = LinkId(l)
          /\ Cardinality({x \in Ids : MapGet(connectedSlaves', x) = l}) <= 1]_vars

\* C13: an event whose payload is missing raises nothing that escapes its
\* handler: the process keeps running and the registry is as it was.
C13_FaultIsolation ==
  [][last'.id = Undefined
     => /\ ~crashed'
        /\ connectedSlaves' = connectedSlaves]_vars

\* C14: with an identity file that cannot be read, cannot be parsed or has
\* no id, start() ends the process with a non-zero status; no socket is ever
\* created and nothing, identify included, is ever emitted.
C14_NoIdentityExits ==
  identityFile \in {IdentityUnreadable, IdentityUnparsable, IdentityNoId}
  => /\ instSocketServer = "none"
     /\ toMaster = <<>>
     /\ last.ev # "start" => (exitCode # NoExit /\ exitCode # 0)

C14_Witness ==
  /\ identityFile = IdentityNoId
  /\ last.ev = "slave-start"
  /\ exitCode = 1
  /\ instSocketServer = "none"

\* C15: a forward-data packet from the master is emitted as data-ui exactly
\* once on the socket of every dashboard that is connected at that moment.
C15_RebroadcastToAll ==
  last.ev = "hub-forward-data"
  => \A d \in Clients :
       (hubConn[d] = "open" /\ d # masterClient)
       => Count(toClients, LAMBDA m : /\ m.to = d
                                      /\ m.ev = "data-ui"
                                      /\ m.payload.slaveIp = last.id) = 1

\* C16: from a control stop until the next start, restart or config message
\* no timer of a handler runs and the slave emits neither sensor-data nor
\* health-status.
C16_StopMeansIdle ==
  stopRequested
  => /\ \A h \in Handlers : intervals[h] = 0
     /\ \A i \in 1..Len(toMaster) :
          toMaster[i].ev \notin {"sensor-data", "health-status"}

\* C17: when a control restart has been handled by a slave that holds a
\* config, every handler that was running has been stopped (the handlers of
\* the config and the health handler are started again by the timer).
C17_RestartStopsFirst ==
  (last.ev = "slave-control" /\ last.id = "restart" /\ ~agentConfig.isNull)
  => \A h \in Handlers : intervals[h] = 0

\* the packet the slave sent, for the packets of SensorInputs and
\* HealthInputs
Received ==
  IF last.ev = "sensor-data" THEN SensorPacket(last.id) ELSE HealthPacket(last.id)

\* C18: with the webserver socket connected, a sensor-data or health-status
\* packet is emitted toward the webserver as it was received: the payload of
\* the forward-data event is the packet, with no field added, removed or
\* changed.
C18_VerbatimForwarding ==
  (/\ last.ev \in {"sensor-data", "health-status"}
   /\ last.id # Undefined
   /\ webserverConnected)
  => /\ Len(toHub) = 1
     /\ toHub[1].ev = "forward-data"
     /\ toHub[1].type = Absent
     /\ toHub[1].payload = Received

\* C19: when the webserver socket connects, nothing about the slaves is put
\* on the wire: no roster, no status of a registered slave and no packet that
\* was received before the connect.
C19_NothingOnHubConnect ==
  last.ev = "hub-connect"
  => \A i \in 1..Len(toHub) : toHub[i].ev # "forward-data"

InboundEvents ==
  {"identify", "sensor-data", "health-status", "disconnect", "control-slave"}

\* C20: each identify, sensor-data, health-status, disconnect and
\* control-slave event hands at most one message to the transport, and what
\* it emits toward the webserver goes on the wire within the event: nothing
\* is held back for later.
C20_OneSendPerEvent ==
  [][last'.ev \in InboundEvents
     => /\ Len(toHub') + Len(toLinks') <= 1
        /\ sendBuffer' = sendBuffer]_vars

\* C21: a link whose last identify named X, while X is registered to another
\* link or to none, stays open until its own disconnect event and, unless
\* the event is an identify of its own, no event emits a config or control
\* message on its socket.
C21_OrphanNeverTargeted ==
  [][\A l \in Links :
       (/\ conn[l] = "open"
        /\ Truthy(slaveId[l])
        /\ MapGet(connectedSlaves, slaveId[l]) # l
        /\ ~(last'.ev = "identify" /\ last'.link = l))
       => /\ To(toLinks', l) = <<>>
          /\ (~(last'.ev = "disconnect" /\ last'.link = l)
              => conn'[l] = "open")]_vars

NotRegistered(m, l) == \A i \in 1..Len(m) : m[i].sock # l

\* link l has handled no identify: no entry of the registry holds it and, in
\* the class, its closure variable slaveId is still null (the procedural
\* master keeps no variable per link)
Unidentified(l) ==
  /\ NotRegistered(connectedSlaves, l)
  /\ impl = "cls" => slaveId[l] = Null

\* C22: a link is in no entry of the registry when it is accepted and stays
\* so until an identify of its own; when a link that never identified
\* closes, the registry is left as it is and nothing is emitted toward the
\* webserver, on the wire or into the send buffer.
C22_UnidentifiedLink ==
  [][\A l \in Links :
       /\ (conn[l] = "none" /\ conn'[l] = "open") => Unidentified(l)'
       /\ (/\ conn[l] = "open"
           /\ Unidentified(l)
           /\ ~(last'.ev = "identify" /\ last'.link = l))
          => Unidentified(l)'
       /\ (/\ Unidentified(l)
           /\ conn[l] = "open" /\ conn'[l] = "closed")
          => /\ connectedSlaves' = connectedSlaves
             /\ toHub' = <<>>
             /\ sendBuffer' = sendBuffer]_vars

C22_Witness ==
  /\ last.ev = "disconnect" /\ last.id = Null /\ last.link = 2
  /\ conn[2] = "closed" /\ slaveId[2] = Null
  /\ MapGet(connectedSlaves, "A1") = 1
  /\ webserverConnected
  /\ toHub = <<>>

\* C23: a sensor-data or health-status packet that arrives on a link which
\* has not identified is not forwarded: nothing is put on the wire or into
\* the send buffer.
C23_ForwardOnlyIdentified ==
  (/\ last.ev \in {"sensor-data", "health-status"}
   /\ slaveId[last.link] = Null
   /\ NotRegistered(connectedSlaves, last.link))
  => toHub = <<>> /\ sendBuffer = <<>>

\* C24: a config message carries the first entry, in file order, that the
\* snapshot holds for its slaveIp, with the handlers list of that entry as it
\* stands in the file.
C24_FirstMatchWins ==
  \A i \in 1..Len(toLinks) :
    toLinks[i].ev = "config"
    => \E k \in 1..Len(Snapshot.config) :
         /\ Snapshot.config[k] = toLinks[i].entry
         /\ \A j \in 1..(k - 1) :
              Snapshot.config[j].slaveIp # toLinks[i].entry.slaveIp

C24_Witness ==
  /\ Snapshot = FileC.json
  /\ last.ev = "identify" /\ last.id = "A1"
  /\ toLinks = <<ConfigMsg(last.link, Entry("A1", <<"temperature", "temperature">>))>>

\* C25: while the file holds valid JSON without a config array, the snapshot
\* the master serves is the one it served before: no step replaces a
\* snapshot that has a config array by the wrongly shaped document.
C25_WrongShapeKeepsSnapshot ==
  [][(fileContent' = WrongShape /\ Snapshot.hasConfig)
     => Snapshot' = Snapshot]_vars

\* the timers startHandlers leaves running for the handlers list hs
ExpectedIntervals(hs) ==
  [h \in Handlers |->
     Cardinality({i \in 1..Len(Spawned(hs)) : Spawned(hs)[i].sock = h})]

\* every handler the list hs asks for, and the health handler, has a timer
\* that runs
Running(hs) ==
  \A h \in Handlers : ExpectedIntervals(hs)[h] > 0 => intervals[h] > 0

\* the transport is down on one side at least
LinkDown == ~Linked \/ instSocketServer # "connected"

\* C26: whenever the slave's socket connects, the slave emits identify with
\* its id on it; and if the snapshot holds an entry for that id then, unless
\* the link goes down, the slave comes to handle a config message that
\* carries the entry's handlers list, after which those handlers and the
\* health handler run.
C26_ReconnectRestores ==
  /\ [][last'.ev = "slave-connect"
        => /\ toMaster' = <<Identify(slaveIdentity)>>
           /\ upWire' = upWire \o <<Identify(slaveIdentity)>>]_vars
  /\ (last.ev = "slave-connect" /\ EntryFor(slaveIdentity) # NoEntry)
       ~> \/ LinkDown
          \/ /\ last.ev = "slave-config"
             /\ agentConfig = SlaveConfig(TRUE, EntryFor(slaveIdentity).handlers)
             /\ Running(agentConfig.handlers)

C26_Witness ==
  /\ sessLink = 2 /\ conn[1] = "closed"
  /\ last.ev = "slave-config"
  /\ agentConfig = SlaveConfig(TRUE, EntryFor("A1").handlers)
  /\ Running(agentConfig.handlers)

\* C27: after a config message with handlers list H has been handled, the
\* timers that run are those of one sensor handler per element of H and of
\* one health handler, and no other.
C27_ConfigReplacesHandlers ==
  (last.ev = "slave-config" /\ agentConfig.hasHandlers)
  => intervals = ExpectedIntervals(agentConfig.handlers)

\* C28: every timer that runs belongs to a handler that the Map holds.
C28_HandlersTracked ==
  \A h \in Handlers :
    intervals[h] = Cardinality({i \in 1..Len(activeHandlers) :
                                  activeHandlers[i].sock = h})

\* C29: a control start that arrives while a timer of a handler runs, or
\* while the slave holds no config, leaves the Map and the timers as they
\* are.
C29_StartIdempotent ==
  [][(/\ last'.ev = "slave-control" /\ last'.id = "start"
      /\ cmds' = cmds + 1
      /\ \/ \E h \in Handlers : intervals[h] > 0
         \/ agentConfig.isNull)
     => /\ intervals' = intervals
        /\ activeHandlers' = activeHandlers]_vars

\* C30: while the socket is disconnected no timer of a handler runs and the
\* slave emits neither sensor-data nor health-status.
C30_DisconnectedIdle ==
  instSocketServer = "disconnected"
  => /\ \A h \in Handlers : intervals[h] = 0
     /\ \A i \in 1..Len(toMaster) :
          toMaster[i].ev \notin {"sensor-data", "health-status"}

\* C31: every entry of the registry holds a link that is open.
C31_NoStaleEntries ==
  \A i \in 1..Len(connectedSlaves) : conn[connectedSlaves[i].sock] = "open"

\* link l closes in this step
Closes(l) == conn[l] = "open" /\ conn'[l] = "closed"

\* C32: when a link closes whose identify named X while X is registered to
\* another link, X stays registered to that other link.
C32_OrphanCloseKeepsEntry ==
  [][\A l \in Links, x \in Ids :
       (/\ Closes(l)
        /\ MapGet(connectedSlaves, x) \notin {NoLink, l}
        /\ impl = "cls" => slaveId[l] = x)
       => MapGet(connectedSlaves', x) = MapGet(connectedSlaves, x)]_vars

\* this step hands an offline packet for x to the webserver socket, which
\* puts it on the wire or into its send buffer
EmitsOffline(x) ==
  \/ Count(toHub', LAMBDA p : IsOffline(p, x)) > 0
  \/ /\ Len(sendBuffer') = Len(sendBuffer) + 1
     /\ IsOffline(sendBuffer'[Len(sendBuffer')], x)

\* C33: when a link closes, an offline packet for X is emitted only if X is
\* registered to the link that closes.
C33_NoFalseOffline ==
  [][\A l \in Links, x \in Ids :
       (Closes(l) /\ EmitsOffline(x)) => MapGet(connectedSlaves, x) = l]_vars

\* C34: every config message is emitted on the socket that the registry
\* holds, at that moment, under the slaveIp of the entry the message carries.
C34_ConfigIsolation ==
  \A k \in 1..Len(toLinks) :
    toLinks[k].ev = "config"
    => MapGet(connectedSlaves, toLinks[k].entry.slaveIp) = toLinks[k].to

C34_Witness ==
  /\ Reloaded
  /\ MapGet(connectedSlaves, "A1") = 2
  /\ MapGet(connectedSlaves, "A2") = 1
  /\ \E k \in 1..Len(toLinks) :
       toLinks[k].to = 2 /\ toLinks[k].ev = "config" /\ toLinks[k].entry.slaveIp = "A1"
  /\ \E k \in 1..Len(toLinks) :
       toLinks[k].to = 1 /\ toLinks[k].ev = "config" /\ toLinks[k].entry.slaveIp = "A2"

\* C35: when a link closes that is registered under the id it bears, that
\* entry is removed whether the webserver socket is connected or not; while
\* the socket is disconnected nothing is put on the wire or into the send
\* buffer; and no connection, identify or disconnect event of a link changes
\* the connection state of the webserver socket.
C35_CleanupIndependentOfHub ==
  [][/\ \A l \in Links :
          (/\ Closes(l)
           /\ LinkId(l) \in Ids
           /\ MapGet(connectedSlaves, LinkId(l)) = l)
          => /\ MapGet(connectedSlaves', LinkId(l)) = NoLink
             /\ ~webserverConnected
                => toHub' = <<>> /\ sendBuffer' = sendBuffer
     /\ last'.ev \in {"connection", "identify", "disconnect"}
        => webserverConnected' = webserverConnected]_vars

\* C36: while the master node's socket is open, _masterSocket is that
\* socket; and a master-status offline is emitted only by the step in which
\* the master node's socket closes.
C36_MasterStatus ==
  [][/\ hubConn'[masterClient] = "open" => masterSocket' = masterClient
     /\ (\E k \in 1..Len(toClients') :
           /\ toClients'[k].ev = "master-status"
           /\ toClients'[k].payload.status = "offline")
        => /\ hubConn[masterClient] = "open"
           /\ hubConn'[masterClient] = "closed"]_vars

\* C37: a control-slave command that a dashboard sends while the master
\* node's socket is open is emitted once on the master node's socket, and on
\* no other socket.
C37_CommandRelay ==
  (last.ev = "hub-control-slave" /\ hubConn[masterClient] = "open")
  => toClients = <<ControlSlave(masterClient, Command(last.id, last.arg))>>
====
